---- MODULE Spec2Model ----
(***************************************************************************)
(* Model of wallpicker.py: image discovery (find_images), the thumbnail    *)
(* grid layout (WallPicker.populate / clear_grid / refresh), thumbnail     *)
(* scaling and cropping, and the theme dispatcher (WallPicker.on_select,   *)
(* set_wallpaper_wayland, run_cmd, set_hyprland_border_from_wal).          *)
(*                                                                         *)
(* Strings of the program that the code inspects character by character    *)
(* (file names, suffixes, hex colours) are sequences of one-character      *)
(* strings, so that lower(), upper(), lstrip() and sorting are computed.    *)
(***************************************************************************)
EXTENDS Integers, Sequences, FiniteSets, TLC

VARIABLES
    pc,         \* "start" (before WallPicker(...)), "ui" (event loop); "idle", "done" (function runs)
    screen,     \* size of the primary screen, <<width, height>>
    fs,         \* the file system at image_dir: [kind, entries]
    images,     \* self.images
    grid,       \* self.grid: the layout items, in insertion order
    side,       \* the fixed window side (self.width() = self.height())
    npop,       \* number of populate() calls so far; identifies the widgets of one populate
    sinceChange, \* populate() calls since the directory last changed (0: changed since)
    layout,     \* the locals n, cols, rows, thumb_side of the last populate()
    thumb,      \* inputs and results of the thumbnail scaling and cropping of populate
    tools,      \* state of the external programs at the last selection
    palette,    \* state of ~/.cache/wal/colors.json at the last selection
    selected,   \* the path the last clicked button passed to on_select
    log,        \* the external commands attempted by the last on_select, in order
    steps,      \* the steps (1..5) of on_select that the last selection entered
    raisedAt,   \* the step of on_select whose exception escaped, or "none"
    wallpaperSet \* return value of set_wallpaper_wayland in the last on_select

vars == <<pc, screen, fs, images, grid, side, npop, sinceChange, layout, thumb,
          tools, palette, selected, log, steps, raisedAt, wallpaperSet>>

----------------------------------------------------------------------------
(* Bounds *)

MaxFiles == 5       \* image files the wallpaper directory of the UI runs may hold
MaxRefresh == 3     \* populate() calls of one UI run (construction included)
MaxCount == 40      \* largest image count of the grid arithmetic runs
MaxDim == 9         \* largest image width/height of the thumbnail runs
MaxThumb == 4       \* largest thumb_side of the thumbnail runs

----------------------------------------------------------------------------
(* Characters and strings *)

Upper == <<"A","B","C","D","E","F","G","H","I","J","K","L","M",
           "N","O","P","Q","R","S","T","U","V","W","X","Y","Z">>
LowerCase == <<"a","b","c","d","e","f","g","h","i","j","k","l","m",
               "n","o","p","q","r","s","t","u","v","w","x","y","z">>

\* The characters in code point order (the order str comparison uses).
Alphabet == <<"#", ".", "/", "0","1","2","3","4","5","6","7","8","9">>
            \o Upper \o LowerCase

Ord(c) == CHOOSE i \in 1..Len(Alphabet) : Alphabet[i] = c

IndexIn(c, s) == CHOOSE i \in 1..Len(s) : s[i] = c

IsIn(c, s) == \E i \in 1..Len(s) : s[i] = c

\* str.lower() and str.upper() on one character
LowerChar(c) == IF IsIn(c, Upper) THEN LowerCase[IndexIn(c, Upper)] ELSE c
UpperChar(c) == IF IsIn(c, LowerCase) THEN Upper[IndexIn(c, LowerCase)] ELSE c

StrLower(s) == [i \in 1..Len(s) |-> LowerChar(s[i])]
StrUpper(s) == [i \in 1..Len(s) |-> UpperChar(s[i])]

\* s < t for strings: lexicographic by code point, a proper prefix is smaller
RECURSIVE StrLess(_, _)
StrLess(s, t) ==
    IF t = <<>> THEN FALSE
    ELSE IF s = <<>> THEN TRUE
    ELSE IF Head(s) = Head(t) THEN StrLess(Tail(s), Tail(t))
    ELSE Ord(Head(s)) < Ord(Head(t))

\* PurePath.suffix: from the last dot, unless the name starts or ends with it
Suffix(name) ==
    LET dots == {i \in 1..Len(name) : name[i] = "."} IN
    IF dots = {} THEN <<>>
    ELSE LET i == CHOOSE d \in dots : \A e \in dots : e <= d IN
         IF i > 1 /\ i < Len(name) THEN SubSeq(name, i, Len(name)) ELSE <<>>

----------------------------------------------------------------------------
(* Configuration *)

SUPPORTED_EXTS == { <<".","j","p","g">>, <<".","j","p","e","g">>, <<".","p","n","g">>,
                    <<".","w","e","b","p">>, <<".","b","m","p">>, <<".","g","i","f">> }

BORDER_COLOR == "color4"

ImageDir == <<"/","w">>

----------------------------------------------------------------------------
(* Image discovery *)

\* sorted(p.iterdir()): the entries' names in ascending order
RECURSIVE SortedNames(_)
SortedNames(names) ==
    IF names = {} THEN <<>>
    ELSE LET m == CHOOSE x \in names : \A y \in names \ {x} : StrLess(x, y)
         IN <<m>> \o SortedNames(names \ {m})

RECURSIVE SelectSupported(_)
SelectSupported(names) ==
    IF names = <<>> THEN <<>>
    ELSE IF StrLower(Suffix(Head(names))) \in SUPPORTED_EXTS
         THEN <<Head(names)>> \o SelectSupported(Tail(names))
         ELSE SelectSupported(Tail(names))

\* str(f) for f = p / name
JoinPath(dir, name) == dir \o <<"/">> \o name

find_images(f) ==
    IF f.kind # "dir" THEN <<>>
    ELSE LET kept == SelectSupported(SortedNames({e.name : e \in f.entries}))
         IN [i \in 1..Len(kept) |-> JoinPath(ImageDir, kept[i])]

----------------------------------------------------------------------------
(* Window geometry (WallPicker.__init__) *)

OuterMargin == 4    \* vbox.setContentsMargins(4, 4, 4, 4)
GridMargin == 4     \* self.grid.setContentsMargins(4, 4, 4, 4)
GridSpacing == 4    \* self.grid.setSpacing(4)

MinOf(a, b) == IF a <= b THEN a ELSE b

\* int(min(w * 0.5, h * 0.5)): the halves are exact, int() truncates
WindowSide(w, h) == MinOf(w, h) \div 2

----------------------------------------------------------------------------
(* Grid arithmetic (WallPicker.populate) *)

\* math.ceil(math.sqrt(n))
GridCols(n) == CHOOSE c \in 0..n : c * c >= n /\ \A d \in 0..n : d * d >= n => c <= d

\* math.ceil(n / cols)
GridRowsFloor(n, cols) == n \div cols
GridRows(n, cols) == IF n % cols = 0 THEN n \div cols ELSE (n \div cols) + 1

\* self.width() - (margins.left() + margins.right()); the window is square
Available(s) == s - (GridMargin + GridMargin)

\* thumb_side_w, thumb_side_h and their minimum; // floors
ThumbSideW(s, cols) == (Available(s) - (cols - 1) * GridSpacing) \div cols
ThumbSideH(s, rows) == (Available(s) - (rows - 1) * GridSpacing) \div rows
ThumbSideWideOnly(s, cols, rows) == ThumbSideH(s, rows)
ThumbSide(s, cols, rows) == MinOf(ThumbSideW(s, cols), ThumbSideH(s, rows))

----------------------------------------------------------------------------
(* Grid contents (WallPicker.clear_grid, WallPicker.populate) *)

NoPath == <<>>

\* while self.grid.count(): self.grid.takeAt(0) ...
RECURSIVE clear_grid(_)
clear_grid_keep(g) == g
clear_grid(g) == IF Len(g) = 0 THEN g ELSE clear_grid(Tail(g))

CellRowSwapped(idx, cols) == idx % cols
CellRow(idx, cols) == idx \div cols
CellCol(idx, cols) == idx % cols

\* the disabled "No images found" button at (0, 0)
Placeholder(gen) ==
    [row |-> 0, col |-> 0, path |-> NoPath, size |-> 0, enabled |-> FALSE, gen |-> gen]

\* one thumbnail button; path is the value its clicked-lambda captured (p=imgpath)
Button(idx, imgpath, cols, thumb_side, gen) ==
    [row |-> CellRow(idx, cols), col |-> CellCol(idx, cols), path |-> imgpath,
     size |-> thumb_side, enabled |-> TRUE, gen |-> gen]

\* the locals of populate(); cols, rows and thumb_side are not set when n = 0
NoLayout == [n |-> 0, cols |-> 0, rows |-> 0, thumb_side |-> 0]

populate_locals(imgs, s) ==
    LET n == Len(imgs) IN
    IF n = 0 THEN NoLayout
    ELSE LET cols == GridCols(n)
             rows == GridRows(n, cols)
         IN [n |-> n, cols |-> cols, rows |-> rows, thumb_side |-> ThumbSide(s, cols, rows)]

\* the grid that populate() leaves, given self.images just read and the old grid
populate(imgs, old, s, gen) ==
    LET n == Len(imgs) IN
    IF n = 0 THEN clear_grid(old) \o <<Placeholder(gen)>>
    ELSE LET cols == GridCols(n)
             rows == GridRows(n, cols)
             thumb_side == ThumbSide(s, cols, rows)
         IN clear_grid(old) \o
            [i \in 1..n |-> Button(i - 1, imgs[i], cols, thumb_side, gen)]

----------------------------------------------------------------------------
(* Thumbnails (WallPicker.populate: pix.scaled(...).copy(...)) *)

\* QPixmap.scaled(t, t, KeepAspectRatioByExpanding): the size is scaled with
\* integer division so that it covers t x t, each dimension at least 1
ScaledSize(w, h, t) ==
    LET rw == (t * w) \div h IN
    IF rw >= t THEN [w |-> IF rw < 1 THEN 1 ELSE rw, h |-> t]
    ELSE LET rh == (t * h) \div w IN [w |-> t, h |-> IF rh < 1 THEN 1 ELSE rh]

\* .copy(0, 0, thumb_side, thumb_side)
CropRectCentered(sz, t) ==
    [x |-> (sz.w - t) \div 2, y |-> (sz.h - t) \div 2, w |-> t, h |-> t]
CropRect(sz, t) == [x |-> 0, y |-> 0, w |-> t, h |-> t]

----------------------------------------------------------------------------
(* External programs *)

Backends == <<"swww", "hyprpaper", "swaybg", "feh">>

ToolNames == {"wal", "walcord", "swww", "hyprpaper", "swaybg", "feh", "hyprctl", "spicetify"}

\* "ok": starts and exits 0; "nonzero": starts and exits non-zero;
\* "missing": no such binary (FileNotFoundError); "noexec": found but cannot
\* be started (PermissionError, another OSError)
ToolStatus == {"ok", "nonzero", "missing", "noexec"}

\* what running a command appends to the record of attempted commands
Attempt(cmd, arg) == [cmd |-> cmd, arg |-> arg]

\* run_cmd: subprocess.run(cmd, check=True) inside try / except Exception
run_cmd(status) == status = "ok"

\* set_wallpaper_wayland: [log, ok] for the backends bs still to try
RECURSIVE TryBackendsAll(_, _, _)
TryBackendsAll(bs, path, env) ==
    IF bs = <<>> THEN [log |-> <<>>, ok |-> FALSE]
    ELSE LET rest == TryBackendsAll(Tail(bs), path, env)
         IN [log |-> <<Attempt(Head(bs), path)>> \o rest.log,
             ok |-> run_cmd(env[Head(bs)]) \/ rest.ok]

RECURSIVE TryBackends(_, _, _)
TryBackends(bs, path, env) ==
    IF bs = <<>> THEN [log |-> <<>>, ok |-> FALSE]
    ELSE IF run_cmd(env[Head(bs)])
         THEN [log |-> <<Attempt(Head(bs), path)>>, ok |-> TRUE]
         ELSE LET rest == TryBackends(Tail(bs), path, env)
              IN [log |-> <<Attempt(Head(bs), path)>> \o rest.log, ok |-> rest.ok]

set_wallpaper_wayland_all(path, env) == TryBackendsAll(Backends, path, env)
set_wallpaper_wayland(path, env) == TryBackends(Backends, path, env)

\* str.lstrip("#"): drops every leading "#"
RECURSIVE LStripHash(_)
LStripHash(s) == IF s # <<>> /\ Head(s) = "#" THEN LStripHash(Tail(s)) ELSE s

\* f"0x{hexcol.upper()}"
BorderToken(hex) == <<"0", "x">> \o StrUpper(LStripHash(hex))

\* The palette file: "absent"; "notjson" (json.load raises); "nocolors" (no
\* "colors" key); "noslot" (colors lacks BORDER_COLOR); "nonstring" (the slot
\* is not a string, lstrip raises); "ok" (the slot holds hex)
PaletteKinds == {"absent", "notjson", "nocolors", "noslot", "nonstring", "ok"}

\* set_hyprland_border_from_wal: [log, raised]; every exception of the try
\* block, the one of a missing hyprctl included, is caught by except Exception
set_hyprland_border_default(pal, env) ==
    IF pal.kind \in {"absent", "notjson", "nocolors", "nonstring"}
    THEN [log |-> <<>>, raised |-> FALSE]
    ELSE [log |-> <<Attempt("hyprctl", BorderToken(pal.hex))>>, raised |-> FALSE]
set_hyprland_border_from_wal(pal, env) ==
    IF pal.kind = "absent" THEN [log |-> <<>>, raised |-> FALSE]
    ELSE IF pal.kind # "ok" THEN [log |-> <<>>, raised |-> FALSE]
    ELSE [log |-> <<Attempt("hyprctl", BorderToken(pal.hex))>>, raised |-> FALSE]

\* subprocess.Popen(cmd) raises iff the program cannot be started
PopenRaises(status) == status \in {"missing", "noexec"}

\* on_select: [log, steps, raisedAt, wallpaperSet]
on_select(path, env, pal) ==
    LET s1 == <<Attempt("wal", path)>>
        s2 == s1 \o <<Attempt("walcord", NoPath)>>
        wp == set_wallpaper_wayland(path, env)
        s3 == s2 \o wp.log
        bd == set_hyprland_border_from_wal(pal, env)
        s4 == s3 \o bd.log
        s5 == s4 \o <<Attempt("spicetify", NoPath)>>
    IN  IF PopenRaises(env["wal"])    \* Popen(["wal", "-i", path]) is not in a try
        THEN [log |-> s1, steps |-> <<1>>, raisedAt |-> "wal", wallpaperSet |-> FALSE]
        ELSE IF env["walcord"] = "noexec"    \* only FileNotFoundError is caught
        THEN [log |-> s2, steps |-> <<1, 2>>, raisedAt |-> "walcord", wallpaperSet |-> FALSE]
        ELSE IF bd.raised
        THEN [log |-> s4, steps |-> <<1, 2, 3, 4>>, raisedAt |-> "border",
              wallpaperSet |-> wp.ok]
        ELSE IF env["spicetify"] = "noexec"  \* only FileNotFoundError is caught
        THEN [log |-> s5, steps |-> <<1, 2, 3, 4, 5>>, raisedAt |-> "spicetify",
              wallpaperSet |-> wp.ok]
        ELSE [log |-> s5, steps |-> <<1, 2, 3, 4, 5>>, raisedAt |-> "none",
              wallpaperSet |-> wp.ok]

----------------------------------------------------------------------------
(* Inputs of the runs *)

File(name) == [name |-> name, kind |-> "file"]

\* names of the discovery runs: upper-case and mixed-case suffixes, an
\* unsupported suffix, a hidden file without suffix, a double suffix
DiscoveryNames == { <<"A",".","J","P","G">>, <<"b",".","p","n","g">>, <<"c",".","t","x","t">>,
                    <<"x",".","p","n","g">>, <<".","g","i","f">>,
                    <<"d",".","g","i","f",".","W","e","b","P">> }

\* a directory holds each name at most once, as a file or as a sub-directory
DirListings(names) ==
    { { [name |-> n, kind |-> k[n]] : n \in {m \in names : k[m] # "none"} } :
        k \in [names -> {"none", "file", "dir"}] }

NoFs == [kind |-> "missing", entries |-> {}]

DiscoveryInputs ==
    { [kind |-> "dir", entries |-> l] : l \in DirListings(DiscoveryNames) }
    \cup { NoFs, [kind |-> "file", entries |-> {}] }

\* image files of the window runs: 01.png, 02.JPG, 03.gif, 04.png, ...
Digits == <<"0","1","2","3","4","5","6","7","8","9">>
ImageExts == << <<".","p","n","g">>, <<".","J","P","G">>, <<".","g","i","f">> >>
ImageName(i) == <<Digits[(i \div 10) + 1], Digits[(i % 10) + 1]>> \o ImageExts[((i - 1) % 3) + 1]
ImageFiles(n) == { File(ImageName(i)) : i \in 1..n }

UIScreens == { <<1920, 1080>>, <<1366, 768>> }

GridScreens == { <<w, h>> : w \in {640, 801, 1366, 1920}, h \in {61, 480, 768, 1080} }

AllOk == [t \in ToolNames |-> "ok"]

\* statuses that make a difference to the caller: a program started with
\* Popen is never waited for; run_cmd and subprocess.run treat every failure
\* to start alike
Envs ==
    { e \in [ToolNames -> ToolStatus] :
        /\ e["walcord"] # "nonzero" /\ e["spicetify"] # "nonzero"
        /\ \A b \in {"swww", "hyprpaper", "swaybg", "feh", "hyprctl"} : e[b] # "noexec" }

NoHex == <<>>
Palettes ==
    { [kind |-> k, hex |-> NoHex] : k \in PaletteKinds \ {"ok"} }
    \cup { [kind |-> "ok", hex |-> h] :
             h \in { <<"#","1","a","2","b","3","c">>, <<"#","F","f","0","0","9","e">> } }

OkPalette == [kind |-> "ok", hex |-> <<"#","1","a","2","b","3","c">>]

NoThumb == [w |-> 0, h |-> 0, t |-> 0, sw |-> 0, sh |-> 0, crop |-> CropRect([w |-> 0, h |-> 0], 0)]

----------------------------------------------------------------------------
(* The window: construction, refresh, a click, and changes of the directory *)

NoSelection ==
    /\ selected = NoPath /\ log = <<>> /\ steps = <<>>
    /\ raisedAt = "none" /\ wallpaperSet = FALSE

NoWindow ==
    /\ images = <<>> /\ grid = <<>> /\ side = 0 /\ npop = 0 /\ sinceChange = 0
    /\ layout = NoLayout
    /\ NoSelection

Init ==
    /\ pc = "start"
    /\ fs \in { [kind |-> "dir", entries |-> l] : l \in SUBSET ImageFiles(MaxFiles) }
    /\ screen \in UIScreens
    /\ tools = AllOk /\ palette = OkPalette
    /\ thumb = NoThumb
    /\ NoWindow

\* WallPicker.__init__: the fixed square window, then the first populate()
Construct ==
    /\ pc = "start"
    /\ pc' = "ui"
    /\ side' = WindowSide(screen[1], screen[2])
    /\ images' = find_images(fs)
    /\ layout' = populate_locals(images', side')
    /\ grid' = populate(images', grid, side', npop + 1)
    /\ npop' = npop + 1
    /\ sinceChange' = sinceChange + 1
    /\ UNCHANGED <<screen, fs, thumb, tools, palette,
                   selected, log, steps, raisedAt, wallpaperSet>>

\* the "r" shortcut: refresh() = populate()
Refresh ==
    /\ pc = "ui" /\ raisedAt = "none"
    /\ npop < MaxRefresh
    /\ images' = find_images(fs)
    /\ layout' = populate_locals(images', side)
    /\ grid' = populate(images', grid, side, npop + 1)
    /\ npop' = npop + 1
    /\ sinceChange' = sinceChange + 1
    /\ UNCHANGED <<pc, screen, fs, side, thumb, tools, palette,
                   selected, log, steps, raisedAt, wallpaperSet>>

\* a click on the i-th button of the grid: its lambda calls on_select(p).
\* An exception that escapes the slot ends the run.
Click(i) ==
    /\ pc = "ui" /\ raisedAt = "none"
    /\ grid[i].enabled
    /\ LET r == on_select(grid[i].path, tools, palette) IN
        /\ selected' = grid[i].path
        /\ log' = r.log
        /\ steps' = r.steps
        /\ raisedAt' = r.raisedAt
        /\ wallpaperSet' = r.wallpaperSet
    /\ UNCHANGED <<pc, screen, fs, images, grid, side, npop, sinceChange, layout, thumb,
                   tools, palette>>

ClickAny == \E i \in 1..Len(grid) : Click(i)

\* the environment: a file appears in, or disappears from, the directory
AddFile ==
    /\ pc = "ui"
    /\ \E f \in ImageFiles(MaxFiles) \ fs.entries : fs' = [fs EXCEPT !.entries = @ \cup {f}]
    /\ sinceChange' = 0
    /\ UNCHANGED <<pc, screen, images, grid, side, npop, layout, thumb, tools, palette,
                   selected, log, steps, raisedAt, wallpaperSet>>

RemoveFile ==
    /\ pc = "ui"
    /\ \E f \in fs.entries : fs' = [fs EXCEPT !.entries = @ \ {f}]
    /\ sinceChange' = 0
    /\ UNCHANGED <<pc, screen, images, grid, side, npop, layout, thumb, tools, palette,
                   selected, log, steps, raisedAt, wallpaperSet>>

Next == Construct \/ Refresh \/ ClickAny \/ AddFile \/ RemoveFile

Spec == Init /\ [][Next]_vars

----------------------------------------------------------------------------
(* The first populate() on every image count and screen *)

InitGrid ==
    /\ pc = "start"
    /\ fs \in { [kind |-> "dir", entries |-> ImageFiles(n)] : n \in 0..MaxCount }
    /\ screen \in GridScreens
    /\ tools = AllOk /\ palette = OkPalette
    /\ thumb = NoThumb
    /\ NoWindow

NextGrid == Construct \/ ClickAny

SpecGrid == InitGrid /\ [][NextGrid]_vars

----------------------------------------------------------------------------
(* The dispatcher under every state of the external programs *)

InitDispatch ==
    /\ pc = "start"
    /\ fs = [kind |-> "dir", entries |-> ImageFiles(2)]
    /\ screen = <<1920, 1080>>
    /\ tools \in Envs
    /\ palette \in Palettes
    /\ thumb = NoThumb
    /\ NoWindow

NextDispatch == Construct \/ ClickAny

SpecDispatch == InitDispatch /\ [][NextDispatch]_vars

----------------------------------------------------------------------------
(* find_images on every listing *)

InitDiscovery ==
    /\ pc = "idle"
    /\ fs \in DiscoveryInputs
    /\ screen = <<0, 0>>
    /\ tools = AllOk /\ palette = OkPalette
    /\ thumb = NoThumb
    /\ NoWindow

Discover ==
    /\ pc = "idle" /\ thumb = NoThumb
    /\ images' = find_images(fs)
    /\ pc' = "done"
    /\ UNCHANGED <<screen, fs, grid, side, npop, sinceChange, layout, thumb, tools, palette,
                   selected, log, steps, raisedAt, wallpaperSet>>

NextDiscovery == Discover

SpecDiscovery == InitDiscovery /\ [][NextDiscovery]_vars

----------------------------------------------------------------------------
(* The thumbnail of every image size *)

InitThumb ==
    /\ pc = "idle"
    /\ fs = NoFs
    /\ screen = <<0, 0>>
    /\ tools = AllOk /\ palette = OkPalette
    /\ NoWindow
    /\ thumb \in { [NoThumb EXCEPT !.w = w, !.h = h, !.t = t] :
                     w \in 1..MaxDim, h \in 1..MaxDim, t \in 1..MaxThumb }

MakeThumbnail ==
    /\ pc = "idle" /\ thumb # NoThumb
    /\ LET sz == ScaledSize(thumb.w, thumb.h, thumb.t)
       IN thumb' = [thumb EXCEPT !.sw = sz.w, !.sh = sz.h, !.crop = CropRect(sz, thumb.t)]
    /\ pc' = "done"
    /\ UNCHANGED <<screen, fs, images, grid, side, npop, sinceChange, layout, tools, palette,
                   selected, log, steps, raisedAt, wallpaperSet>>

NextThumb == MakeThumbnail

SpecThumb == InitThumb /\ [][NextThumb]_vars

----------------------------------------------------------------------------
(* Properties *)

Populated == pc = "ui" /\ Len(images) >= 1

\* C1: for every image count N >= 1, populate computes cols = ceil(sqrt(N))
\* (the c with (c-1)^2 < N <= c^2) and rows = ceil(N / cols) (the r with
\* (r-1)*cols < N <= r*cols), and then rows*cols >= N and rows*cols - N < cols.
C1_GridShape ==
    Populated =>
        LET n == Len(images)
            c == layout.cols
            r == layout.rows
        IN /\ layout.n = n
           /\ c >= 1 /\ (c - 1) * (c - 1) < n /\ n <= c * c
           /\ r >= 1 /\ (r - 1) * c < n /\ n <= r * c
           /\ r * c >= n
           /\ r * c - n < c

C1_Witness ==
    /\ Populated /\ Len(images) = 5 /\ layout.cols = 3 /\ layout.rows = 2

\* C4: for every N >= 1 the grid, with the margins of the outer layout and of
\* the grid layout around it, is no wider and no higher than the window.
C4_FitsWindow ==
    Populated =>
        LET t == layout.thumb_side
            around == (OuterMargin + OuterMargin) + (GridMargin + GridMargin)
        IN /\ layout.cols * t + (layout.cols - 1) * GridSpacing + around <= side
           /\ layout.rows * t + (layout.rows - 1) * GridSpacing + around <= side

\* C5: with N >= 1 every cell has the same side thumb_side, which is the
\* largest integer t with t*cols + (cols-1)*spacing <= available_w and
\* t*rows + (rows-1)*spacing <= available_h (the minimum of the two floors).
C5_ThumbSide ==
    Populated =>
        LET t == layout.thumb_side
            c == layout.cols
            r == layout.rows
            available == side - (GridMargin + GridMargin)
        IN /\ \A i \in 1..Len(grid) : grid[i].size = t
           /\ t * c + (c - 1) * GridSpacing <= available
           /\ t * r + (r - 1) * GridSpacing <= available
           /\ \/ (t + 1) * c + (c - 1) * GridSpacing > available
              \/ (t + 1) * r + (r - 1) * GridSpacing > available

C5_Witness ==
    /\ Populated /\ layout.cols = 3 /\ layout.rows = 2 /\ layout.thumb_side > 0
    /\ Len(grid) = 5 /\ grid[5].size = layout.thumb_side

\* C10: after populate with N >= 1 the grid holds N cells, image i at
\* row i div cols, col i mod cols, inside the rows x cols grid, no two in one
\* cell, the rows before the last full and the last filled from column 0,
\* and a click on the button of image i calls on_select with that image's path.
C10_Placement ==
    /\ [](Populated =>
            LET n == Len(images)
                c == layout.cols
                r == layout.rows
                at(row, col) == {i \in 1..Len(grid) : grid[i].row = row /\ grid[i].col = col}
            IN /\ Len(grid) = n
               /\ \A i \in 1..n :
                    /\ grid[i].path = images[i] /\ grid[i].enabled
                    /\ grid[i].row * c + grid[i].col = i - 1
                    /\ grid[i].row \in 0..(r - 1) /\ grid[i].col \in 0..(c - 1)
               /\ \A row \in 0..(r - 1), col \in 0..(c - 1) : Cardinality(at(row, col)) <= 1
               /\ \A row \in 0..(r - 2), col \in 0..(c - 1) : at(row, col) # {}
               /\ \A col \in 0..(c - 1) :
                    at(r - 1, col) # {} <=> col < n - (r - 1) * c)
    /\ [][\A i \in 1..Len(grid) :
            Click(i) => /\ selected' = images[i]
                        /\ log'[1] = Attempt("wal", images[i])]_vars

C10_Witness ==
    /\ Populated /\ Len(images) = 7 /\ layout.rows = 3
    /\ grid[7].row = 2 /\ grid[7].col = 0
    /\ selected = images[7]

\* the layout a grid shows: its cells without the identity of their widgets
LayoutOf(g) ==
    [i \in 1..Len(g) |-> [row |-> g[i].row, col |-> g[i].col, path |-> g[i].path,
                          size |-> g[i].size, enabled |-> g[i].enabled]]

\* C8: a refresh leaves no cell of an earlier populate in the grid, and a
\* refresh that follows a populate with the directory unchanged in between
\* yields the same layout (cells, positions, images, thumb_side) again.
C8_RefreshIdempotent ==
    [][npop' # npop =>
         /\ \A i \in 1..Len(grid') : grid'[i].gen = npop'
         /\ sinceChange >= 1 => (LayoutOf(grid') = LayoutOf(grid) /\ layout' = layout)]_vars

C8_Witness ==
    /\ pc = "ui" /\ npop = 3 /\ sinceChange = 2 /\ Len(images) = 3 /\ Len(grid) = 3

\* C6: find_images returns exactly the regular files of the directory with a
\* supported extension (case-insensitive), in ascending order, and the empty
\* list for a path that is missing or not a directory.
C6_RegularFilesOnly ==
    pc = "done" =>
        LET wanted == IF fs.kind # "dir" THEN {}
                      ELSE { JoinPath(ImageDir, e.name) :
                               e \in { x \in fs.entries :
                                         /\ x.kind = "file"
                                         /\ StrLower(Suffix(x.name)) \in SUPPORTED_EXTS } }
        IN /\ { images[i] : i \in 1..Len(images) } = wanted
           /\ \A i, j \in 1..Len(images) : i < j => StrLess(images[i], images[j])

\* C9: the thumbnail is the image scaled so that its smaller dimension is
\* thumb_side, cropped to thumb_side x thumb_side around the centre: the crop
\* starts at ((scaled_w - thumb_side) div 2, (scaled_h - thumb_side) div 2).
C9_CenterCrop ==
    pc = "done" =>
        /\ MinOf(thumb.sw, thumb.sh) = thumb.t
        /\ thumb.crop = [x |-> (thumb.sw - thumb.t) \div 2, y |-> (thumb.sh - thumb.t) \div 2,
                         w |-> thumb.t, h |-> thumb.t]

Entered(k) == \E i \in 1..Len(steps) : steps[i] = k

Attempts(cmd) == {i \in 1..Len(log) : log[i].cmd = cmd}

\* C2: in on_select, whatever fails in a step, every later step is still
\* attempted and no exception escapes.
C2_StepsIndependent ==
    selected # NoPath => (raisedAt = "none" /\ steps = <<1, 2, 3, 4, 5>>)

\* C3: set_wallpaper_wayland runs swww, hyprpaper, swaybg, feh in this order,
\* each at most once, backend k iff all earlier ones failed; it returns True
\* iff one succeeded, and returns False without raising when all four fail.
C3_BackendFallback ==
    Entered(3) =>
        /\ \A k \in 1..4 :
             /\ Cardinality(Attempts(Backends[k])) =
                  IF \A j \in 1..(k - 1) : tools[Backends[j]] # "ok" THEN 1 ELSE 0
             /\ \A i \in Attempts(Backends[k]) :
                  /\ log[i].arg = selected
                  /\ \A j \in 1..(k - 1) : \A h \in Attempts(Backends[j]) : h < i
        /\ wallpaperSet <=> \E k \in 1..4 : tools[Backends[k]] = "ok"
        /\ Entered(4)

C3_Witness ==
    /\ Entered(3) /\ tools["swww"] = "nonzero" /\ tools["hyprpaper"] = "ok"
    /\ Attempts("swww") # {} /\ Attempts("hyprpaper") # {}
    /\ Attempts("swaybg") = {} /\ Attempts("feh") = {} /\ wallpaperSet

\* C7: set_hyprland_border_from_wal issues the hyprctl command once when the
\* slot's hex value was read, never when the palette is absent, malformed or
\* lacks the colors mapping or the slot, and no exception escapes it.
C7_BorderStep ==
    Entered(4) =>
        /\ Cardinality(Attempts("hyprctl")) = IF palette.kind = "ok" THEN 1 ELSE 0
        /\ raisedAt # "border"
        /\ Entered(5)

C7_Witness ==
    /\ Entered(4) /\ palette.kind = "noslot" /\ Attempts("hyprctl") = {}
    /\ raisedAt = "none"

====
